---- MODULE Spec2Model ----
(***************************************************************************)
(* Model of the Matrix kernel of rust/graphics/src/matrix.rs and of the    *)
(* Vector3 of rust/maths/src/vector3.rs, whose cross product is built on   *)
(* the Matrix of the maths crate.                                          *)
(*                                                                         *)
(* A Matrix is a record [rows, columns, data]; data is the Vec<f64>, kept  *)
(* as a sequence (Vec index i is sequence index i+1).  Entries are         *)
(* integer-valued floats, whose sums and products are rounded as f64       *)
(* rounds them, and the values infinity, -infinity and NaN.  A call ends   *)
(* in one of three ways: it returns Ok(v), it returns Err(e), or it ends   *)
(* the program, which is Panic here: a panic (a Vec index out of range, an *)
(* expect on an Err, a usize difference below zero or a usize product or   *)
(* sum of 2^64 or more in a debug build, a Vec of more than isize::MAX     *)
(* bytes) or an abort (an allocation the machine does not grant).          *)
(* Functions that do not return a Result return Ok(v) here as well, so     *)
(* that their panics can be told apart from their values.  rows, columns   *)
(* and indices are usize, kept as four words of 16 bits: in a release      *)
(* build their products, sums and differences wrap modulo 2^64; the        *)
(* variable build tells which of the two builds runs, and the variable     *)
(* memory how large an allocation the machine it runs on grants.           *)
(*                                                                         *)
(* A for loop over a range is an operator of the bounds of a range within  *)
(* it: a range of one value is one iteration, and a longer range is its    *)
(* first part and then its second part, so that the iterations run in the  *)
(* order of the code, each from what the one before left.  The outcome of  *)
(* the iterations before is a parameter: after a panic none runs.          *)
(***************************************************************************)
EXTENDS Integers, Sequences, FiniteSets, TLC

VARIABLES
  a,        \* the caller's first matrix (let mut a), the one set is called on;
            \* the first Vector3 of the caller of SpecVector
  b,        \* the caller's second matrix (let b); the second Vector3 of the
            \* caller of SpecVector
  kept,     \* the matrix the last call returned, when it was a sum or a multiply
            \* (the Vector3, when it was a cross_product);
            \* the caller holds it while it writes a, and drops it at its next
            \* other call
  out,      \* the last call: its name, its arguments and what it returned
  pre,      \* history: a, b and kept as they were when the last call on them
            \* began (as a constructor left them, when it was the last call)
  nsets,    \* history: successful set calls on a since a was constructed
  base,     \* history: the data of a as constructed
  written,  \* history: cell -> value of the most recent successful set on a
  stage,    \* the caller's position: 0 constructs a, 1 reads and writes a,
            \* 2 constructs b, 3 computes with a and b, 4 has written a
            \* after a computation, 5 has returned
  stack,    \* the frames of a call of determinant that is under way, the
            \* outermost first (SpecRecursion follows the call frame by frame)
  build,    \* the build the program runs as: "debug" (an overflow of usize
            \* arithmetic panics) or "release" (it wraps)
  memory    \* the machine the program runs on: the number of f64 values
            \* from which it grants no allocation (the program aborts)

vars == <<a, b, kept, out, pre, nsets, base, written, stage, stack, build, memory>>

(* ---------------------------------------------------------------- bounds *)
\* largest row / column count of the matrices of Spec
MaxDim == 3
\* largest row / column count of the matrices of SpecAccess
AccDim == 2
\* largest size of the square matrices of SpecDet
DetDim == 4
\* largest number of successful set calls on a by the caller of SpecAccess
MaxSets == 1
\* largest number of successful set calls on a by the callers that compute
\* with it (Spec, SpecDet)
MixSets == 1
\* largest absolute value of the components of the vectors of SpecVector,
\* the vectors of the tests apart
VecMax == 1
\* largest absolute value of the finite values of the matrices of SpecSmall
FloatMax == 2

(* --------------------------------------------------------- result values *)
Ok(v) == [tag |-> "Ok", val |-> v]
Err(e) == [tag |-> "Err", err |-> e]
Panic == [tag |-> "Panic"]

IncorrectDataSize == [kind |-> "IncorrectDataSize"]
IncompatibleDimensions == [kind |-> "IncompatibleDimensions"]
SquareMatrixRequired == [kind |-> "SquareMatrixRequired"]
InvalidIndex(row, column) == [kind |-> "InvalidIndex", row |-> row, column |-> column]

Matrix(rows, columns, data) == [rows |-> rows, columns |-> columns, data |-> data]

(* ---------------------------------------------------------- usize values *)
\* A usize (64 bits) is kept as its four words of 16 bits, the lowest
\* first: <<w0, w1, w2, w3>> is w0 + w1 * 2^16 + w2 * 2^32 + w3 * 2^48.
\* Every value of usize has one such form, and the operations below are
\* exact on all of them.
Word == 65536
Byte == 256

\* the usize of a number
usize(n) ==
  <<n % Word, (n \div Word) % Word, ((n \div Word) \div Word) % Word,
    (((n \div Word) \div Word) \div Word) % Word>>
\* the number of a usize
usize_val(x) == x[1] + Word * (x[2] + Word * (x[3] + Word * x[4]))

Two28 == <<0, 4096, 0, 0>>
Two32 == <<0, 0, 1, 0>>
Two60 == <<0, 0, 0, 4096>>
Two63 == <<0, 0, 0, 32768>>
usize_max == <<Word - 1, Word - 1, Word - 1, Word - 1>>

\* x < y
usize_lt(x, y) ==
  \/ x[4] < y[4]
  \/ x[4] = y[4] /\ x[3] < y[3]
  \/ x[4] = y[4] /\ x[3] = y[3] /\ x[2] < y[2]
  \/ x[4] = y[4] /\ x[3] = y[3] /\ x[2] = y[2] /\ x[1] < y[1]

Builds == {"debug", "release"}
\* the machines: one that grants no allocation of 2^28 values (2 GiB) or
\* more, and one that grants every allocation a Vec can ask for (below 2^60
\* values).  An allocation of less than 2^28 values is taken to be granted
Memories == {Two28, Two60}

\* the outcome of an operation of usize whose exact result is outside
\* 0 .. 2^64 - 1 when over holds, and is wrapped modulo 2^64 otherwise
usize_result(over, wrapped) ==
  IF over /\ build = "debug" THEN Panic ELSE Ok(wrapped)

\* the low and the high word of the product of the words v and w
word_mul_low(v, w) == (v * (w % Byte) + ((v * (w \div Byte)) % Byte) * Byte) % Word
word_mul_high(v, w) ==
  (v * (w \div Byte)) \div Byte
    + (v * (w % Byte) + ((v * (w \div Byte)) % Byte) * Byte) \div Word

\* what the words of x from i on and those of y add to the word k of the
\* product of x and y
RECURSIVE usize_column(_, _, _, _)
usize_column(x, y, k, i) ==
  IF i > 4 THEN 0
  ELSE (IF k - i \in 0..3 THEN word_mul_low(x[i], y[k - i + 1]) ELSE 0)
         + (IF k - i \in 1..4 THEN word_mul_high(x[i], y[k - i]) ELSE 0)
         + usize_column(x, y, k, i + 1)

\* the words k to 8 of the exact product of x and y, the lowest first;
\* total is the column of word k with the carry of the words below it
RECURSIVE usize_product(_, _, _, _)
usize_product(x, y, k, total) ==
  IF k >= 8 THEN <<total % Word>>
  ELSE <<total % Word>> \o usize_product(x, y, k + 1,
                                         usize_column(x, y, k + 1, 1) + total \div Word)

\* x is below 2^15, and below 2^30
usize_below_2_15(x) == x[1] < 32768 /\ x[2] = 0 /\ x[3] = 0 /\ x[4] = 0
usize_below_2_30(x) == x[2] < 16384 /\ x[3] = 0 /\ x[4] = 0

\* the eight words of the exact product of x and y (that of two values
\* below 2^15 is below 2^30)
usize_mul_exact(x, y) ==
  IF usize_below_2_15(x) /\ usize_below_2_15(y)
    THEN usize(x[1] * y[1]) \o <<0, 0, 0, 0>>
    ELSE usize_product(x, y, 1, usize_column(x, y, 1, 1))

\* the words k to 4 of the sum of x, y and carry, and the carry out of them
RECURSIVE usize_sum(_, _, _, _)
usize_sum(x, y, k, carry) ==
  IF k > 4 THEN <<carry>>
  ELSE <<(x[k] + y[k] + carry) % Word>>
         \o usize_sum(x, y, k + 1, (x[k] + y[k] + carry) \div Word)

\* the words k to 4 of x - y - borrow, and the borrow out of them
RECURSIVE usize_difference(_, _, _, _)
usize_difference(x, y, k, borrow) ==
  IF k > 4 THEN <<borrow>>
  ELSE <<(x[k] - y[k] - borrow + Word) % Word>>
         \o usize_difference(x, y, k + 1, IF x[k] - y[k] - borrow < 0 THEN 1 ELSE 0)

\* the exact product of x and y is 2^64 or more
usize_mul_over(x, y) == SubSeq(usize_mul_exact(x, y), 5, 8) # <<0, 0, 0, 0>>
\* the product of x and y modulo 2^64
usize_mul_wrapped(x, y) == SubSeq(usize_mul_exact(x, y), 1, 4)
\* the four words of the exact sum of x and y and its carry (the sum of
\* two values below 2^30 is below 2^31)
usize_add_exact(x, y) ==
  IF usize_below_2_30(x) /\ usize_below_2_30(y)
    THEN usize(usize_val(x) + usize_val(y)) \o <<0>>
    ELSE usize_sum(x, y, 1, 0)

\* the exact sum of x and y is 2^64 or more
usize_add_over(x, y) == usize_add_exact(x, y)[5] # 0
\* the sum of x and y modulo 2^64
usize_add_wrapped(x, y) == SubSeq(usize_add_exact(x, y), 1, 4)
\* the difference of x and y modulo 2^64
usize_sub_wrapped(x, y) == SubSeq(usize_difference(x, y, 1, 0), 1, 4)
\* x / 2
usize_half(x) ==
  <<x[1] \div 2 + (x[2] % 2) * 32768, x[2] \div 2 + (x[3] % 2) * 32768,
    x[3] \div 2 + (x[4] % 2) * 32768, x[4] \div 2>>

\* the outcome of a product whose eight words are p
usize_mul_of(p) == usize_result(SubSeq(p, 5, 8) # <<0, 0, 0, 0>>, SubSeq(p, 1, 4))
\* x * y
usize_mul(x, y) == usize_mul_of(usize_mul_exact(x, y))

\* the outcome of a sum or a difference whose words and carry are s
usize_add_of(s) == usize_result(s[5] # 0, SubSeq(s, 1, 4))
\* x + y
usize_add(x, y) == usize_add_of(usize_add_exact(x, y))
\* x - y
usize_sub(x, y) == usize_add_of(usize_difference(x, y, 1, 0))

\* x + y, y being the outcome of an operation of usize
usize_add_to(x, y) == IF y.tag = "Panic" THEN Panic ELSE usize_add(x, y.val)

\* the value after x of a range that goes on beyond x, and of a counter
\* below a value of a range
usize_succ(x) == usize_add_wrapped(x, usize(1))
\* the shorter of half and ahead + 1, ahead being the eight words of a product
usize_shorter(half, ahead) ==
  IF SubSeq(ahead, 5, 8) # <<0, 0, 0, 0>> \/ ~usize_lt(SubSeq(ahead, 1, 4), half)
    THEN half
    ELSE usize_succ(SubSeq(ahead, 1, 4))
\* the length of the first of the two parts of a range of width values that
\* starts at from: half of width, and 16 * from + 1 where the range is of 2^16
\* values or more and that is shorter, so that the first iterations of such
\* a range are within a few parts
usize_first(from, width) ==
  IF width[2] = 0 /\ width[3] = 0 /\ width[4] = 0 THEN usize_half(width)
  ELSE usize_shorter(usize_half(width), usize_mul_exact(from, usize(16)))
\* the value between from and to where the range from .. to of two values or
\* more is split
usize_split(from, to) ==
  usize_add_wrapped(from, usize_first(from, usize_sub_wrapped(to, from)))

(* ------------------------------------------------------------ f64 values *)
\* An f64 is a record: a finite value v is [class "finite", v], the
\* infinities are [class "infinite", v] with v their sign 1 or -1, and NaN
\* is [class "nan", v 0].  The finite values are integers; a sum or a
\* product of two of them is the integer it is in exact arithmetic, rounded
\* as f64 rounds it: to a nearest value of 53 significant bits, to the one of
\* even last bit where two are as near, and to infinity from 2^1024 - 2^970
\* on.  The sign of zero is not modelled (0.0 and -0.0 are equal).
f64(v) == [class |-> "finite", v |-> v]
Infinity == [class |-> "infinite", v |-> 1]
NegInfinity == [class |-> "infinite", v |-> -1]
NaN == [class |-> "nan", v |-> 0]

IsFinite(x) == x.class = "finite"

\* m < 2^53, m is written in 53 bits: m \div 2^27 is below 2^26
f64_fits(m) == (m \div 134217728) < 67108864

\* the spacing of the f64 values at m >= 2^53: the least of the powers of
\* two u, 2 * u, 4 * u, .. that leaves m \div it within 53 bits
RECURSIVE f64_ulp(_, _)
f64_ulp(m, u) == IF f64_fits(m \div u) THEN u ELSE f64_ulp(m, 2 * u)

\* 2^k
RECURSIVE f64_pow2(_)
f64_pow2(k) == IF k = 0 THEN 1 ELSE 2 * f64_pow2(k - 1)

\* the f64 an operation returns whose exact result is the integer n: n where
\* its magnitude m is within 53 bits, and otherwise the nearest multiple of
\* the spacing u at m, q being m \div u and r the rest: the one above when
\* r is more than half of u, or half of u and q is odd; an infinity where
\* that is 2^1024 or more
f64_round(n) ==
  LET m == IF n < 0 THEN -n ELSE n
      u == f64_ulp(m, 2)
      q == m \div u
      r == m % u
      nearest == IF 2 * r > u \/ (2 * r = u /\ q % 2 = 1) THEN (q + 1) * u ELSE q * u
  IN  IF f64_fits(m) THEN f64(n)
      ELSE IF nearest >= f64_pow2(1024) THEN (IF n < 0 THEN NegInfinity ELSE Infinity)
      ELSE f64(IF n < 0 THEN -nearest ELSE nearest)

\* -x
fneg(x) == [x EXCEPT !.v = -@]

\* x * y
fmul(x, y) ==
  IF x = NaN \/ y = NaN THEN NaN
  ELSE IF IsFinite(x) /\ IsFinite(y) THEN f64_round(x.v * y.v)
  ELSE IF x.v = 0 \/ y.v = 0 THEN NaN
  ELSE IF (x.v > 0) = (y.v > 0) THEN Infinity ELSE NegInfinity

\* x + y
fadd(x, y) ==
  IF x = NaN \/ y = NaN THEN NaN
  ELSE IF IsFinite(x) /\ IsFinite(y) THEN f64_round(x.v + y.v)
  ELSE IF IsFinite(x) THEN y
  ELSE IF IsFinite(y) THEN x
  ELSE IF x = y THEN x ELSE NaN

\* x - y
fsub(x, y) == fadd(x, fneg(y))

(* ------------------------------------------------------------ Vec values *)
\* vec![0.0; n], n being the outcome of an operation of usize: from 2^60
\* values on it panics (capacity overflow, more than isize::MAX bytes);
\* below that the machine grants the allocation or the program aborts
\* (memory allocation failed), which ends it as a panic does.  \o <<>> keeps
\* the values as a sequence whose length is read off
vec_zeros(n) ==
  IF n.tag = "Panic" THEN Panic
  ELSE IF ~usize_lt(n.val, Two60) THEN Panic
  ELSE IF ~usize_lt(n.val, memory) THEN Panic
  ELSE Ok([i \in 1..usize_val(n.val) |-> f64(0)] \o <<>>)

\* a Vec index expression data[i] is in range (it panics otherwise)
in_bounds(data, i) == usize_lt(i, usize(Len(data)))
\* data[i], i being in range
at(data, i) == data[usize_val(i) + 1]

(* A step of the code that binds an outcome with let and goes on according *)
(* to it is an operator here whose last parameter is that outcome: new_of  *)
(* goes on from expected_size, get_at from the index, and so on.           *)

(* ----------------------------------------------------------- constructors *)
\* new from `let expected_size = rows * columns` on
new_of(rows, columns, data, expected_size) ==
  IF expected_size.tag = "Panic" THEN Panic
  ELSE IF usize(Len(data)) # expected_size.val THEN Err(IncorrectDataSize)
  ELSE Ok(Matrix(rows, columns, data))

new(rows, columns, data) == new_of(rows, columns, data, usize_mul(rows, columns))

\* Matrix { rows, columns, data }, data being the outcome of vec!
matrix_of(rows, columns, data) ==
  IF data.tag = "Panic" THEN Panic ELSE Ok(Matrix(rows, columns, data.val))

zeros(rows, columns) == matrix_of(rows, columns, vec_zeros(usize_mul(rows, columns)))

square_zeros(dimension) ==
  matrix_of(dimension, dimension, vec_zeros(usize_mul(dimension, dimension)))

get_index_ok(self, row, column) == usize_add_to(column, usize_mul(row, self.columns))

\* get_index with the column compared by > instead of >=
get_index_off_by_one(self, row, column) ==
  IF ~usize_lt(row, self.rows) THEN Err(InvalidIndex(row, column))
  ELSE IF usize_lt(self.columns, column) THEN Err(InvalidIndex(row, column))
  ELSE get_index_ok(self, row, column)

get_index(self, row, column) ==
  IF ~usize_lt(row, self.rows) THEN Err(InvalidIndex(row, column))
  ELSE IF ~usize_lt(column, self.columns) THEN Err(InvalidIndex(row, column))
  ELSE get_index_ok(self, row, column)

\* m.data[index] = 1.0, index being the outcome of m.get_index_ok(i, i)
identity_at(m, index) ==
  IF index.tag = "Panic" THEN Panic
  ELSE IF ~in_bounds(m.data, index.val) THEN Panic
  ELSE Ok([m EXCEPT !.data[usize_val(index.val) + 1] = f64(1)])

\* the iterations from .. to of the loop of identity; m is the outcome of
\* square_zeros and of the iterations before
RECURSIVE identity_loop(_, _, _)
identity_loop(m, from, to) ==
  IF m.tag = "Panic" THEN Panic
  ELSE IF ~usize_lt(from, to) THEN m
  ELSE IF usize_succ(from) = to
    THEN identity_at(m.val, get_index_ok(m.val, from, from))
  ELSE LET split == usize_split(from, to)
           first == identity_loop(m, from, split)
       IN  identity_loop(first, split, to)

\* identity from `let mut m = Matrix::square_zeros(rows)` on.  With
\* rows = 2^64 - 1 a release build has m.data of one value, and every one of
\* the 2^64 - 1 iterations writes it, i + i * rows being 0 modulo 2^64: the
\* loop is taken by what it leaves.
identity_of(rows, m) ==
  IF m.tag = "Panic" THEN Panic
  ELSE IF rows = usize_max THEN Ok([m.val EXCEPT !.data[1] = f64(1)])
  ELSE identity_loop(m, usize(0), rows)

identity(rows) == identity_of(rows, square_zeros(rows))

(* A method is an operator from what its receiver and its borrowed argument *)
(* hold when the call begins to what the call leaves: the receiver (self)   *)
(* and the argument (other) as the body leaves them, and the call's result  *)
(* (ret).  The body's assignments are made on its variables, self and other *)
(* among them, and what the call leaves is read off them at its return.     *)

(* ---------------------------------------------------------------- access *)
\* .map(|i| self.data[i]) on the outcome i of get_index
get_at(self, i) ==
  [self |-> self,
   ret |-> IF i.tag = "Ok"
             THEN IF in_bounds(self.data, i.val) THEN Ok(at(self.data, i.val)) ELSE Panic
             ELSE i]

get(self, row, column) == get_at(self, get_index(self, row, column))

\* .map(|i| { self.data[i] = value; }) on the outcome i of get_index
set_at(self, i, value) ==
  IF i.tag = "Ok"
    THEN IF in_bounds(self.data, i.val)
           THEN [self |-> [self EXCEPT !.data[usize_val(i.val) + 1] = value],
                 ret |-> Ok(<<>>)]
           ELSE [self |-> self, ret |-> Panic]
    ELSE [self |-> self, ret |-> i]

set(self, row, column, value) == set_at(self, get_index(self, row, column), value)

(* ------------------------------------------------------------ arithmetic *)
\* the variables of the body of sum and of multiply: self and other, and
\* result, which the body owns
Locals(self, other, result) == [self |-> self, other |-> other, result |-> result]

\* let mut result = Matrix::zeros(..), allocated being the outcome of zeros
locals_of(self, other, allocated) ==
  IF allocated.tag = "Panic" THEN Panic
  ELSE Ok(Locals(self, other, allocated.val))

\* Ok(result), locals being the outcome of the loops: what the call leaves
returns_result(self, other, locals) ==
  IF locals.tag = "Panic" THEN [self |-> self, other |-> other, ret |-> Panic]
  ELSE [self |-> locals.val.self, other |-> locals.val.other,
        ret |-> Ok(locals.val.result)]

\* return Err(MatrixError::IncompatibleDimensions), before any assignment
returns_incompatible(self, other) ==
  [self |-> self, other |-> other, ret |-> Err(IncompatibleDimensions)]

\* the iteration of sum that accumulates into self:
\* self.data[index] = self.data[index] + other.data[index]
sum_at_in_place(locals, index) ==
  IF index >= Len(locals.other.data) \/ index >= Len(locals.result.data) THEN Panic
  ELSE Ok([locals EXCEPT !.self.data[index + 1] =
             fadd(locals.self.data[index + 1], locals.other.data[index + 1])])

\* result.data[index] = self.data[index] + other.data[index], index being a
\* number below self.data.len()
sum_at(locals, index) ==
  IF index >= Len(locals.other.data) \/ index >= Len(locals.result.data) THEN Panic
  ELSE Ok([locals EXCEPT !.result.data[index + 1] =
             fadd(locals.self.data[index + 1], locals.other.data[index + 1])])

\* the iterations from .. to of the loop of sum, from and to being numbers;
\* locals is the outcome of zeros and of the iterations before
RECURSIVE sum_loop(_, _, _)
sum_loop(locals, from, to) ==
  IF locals.tag = "Panic" THEN Panic
  ELSE IF from >= to THEN locals
  ELSE IF from + 1 = to THEN sum_at(locals.val, from)
  ELSE LET split == (from + to) \div 2
           first == sum_loop(locals, from, split)
       IN  sum_loop(first, split, to)

\* sum that rejects the operands only when both dimensions differ
sum_both_differ(self, other) ==
  IF self.rows # other.rows /\ self.columns # other.columns
    THEN returns_incompatible(self, other)
    ELSE returns_result(self, other,
           sum_loop(locals_of(self, other, zeros(self.rows, self.columns)),
                    0, Len(self.data)))

sum(self, other) ==
  IF self.rows # other.rows \/ self.columns # other.columns
    THEN returns_incompatible(self, other)
    ELSE returns_result(self, other,
           sum_loop(locals_of(self, other, zeros(self.rows, self.columns)),
                    0, Len(self.data)))

\* r = r + (self.data[s_index] * other.data[o_index]), s_index and o_index
\* being the outcomes of get_index_ok
multiply_elem_at(self, other, r, s_index, o_index) ==
  IF s_index.tag = "Panic" \/ o_index.tag = "Panic" THEN Panic
  ELSE IF ~in_bounds(self.data, s_index.val) \/ ~in_bounds(other.data, o_index.val)
    THEN Panic
  ELSE Ok(fadd(r, fmul(at(self.data, s_index.val), at(other.data, o_index.val))))

\* the iterations from .. to of the innermost loop of multiply, the one over
\* elem; r is the outcome of the iterations before
RECURSIVE multiply_elem_loop(_, _, _, _, _, _, _)
multiply_elem_loop(self, other, row, column, r, from, to) ==
  IF r.tag = "Panic" THEN Panic
  ELSE IF ~usize_lt(from, to) THEN r
  ELSE IF usize_succ(from) = to
    THEN multiply_elem_at(self, other, r.val,
                          get_index_ok(self, row, from), get_index_ok(other, from, column))
  ELSE LET split == usize_split(from, to)
           first == multiply_elem_loop(self, other, row, column, r, from, split)
       IN  multiply_elem_loop(self, other, row, column, first, split, to)

\* result.data[index] = r, r being the outcome of the loop over elem and
\* index that of get_index_ok
multiply_column_at(locals, r, index) ==
  IF r.tag = "Panic" \/ index.tag = "Panic" THEN Panic
  ELSE IF ~in_bounds(locals.result.data, index.val) THEN Panic
  ELSE Ok([locals EXCEPT !.result.data[usize_val(index.val) + 1] = r.val])

\* the iterations from .. to of the loop over column of multiply, within
\* one row; locals is the outcome of the iterations before
RECURSIVE multiply_column_loop(_, _, _, _)
multiply_column_loop(locals, row, from, to) ==
  IF locals.tag = "Panic" THEN Panic
  ELSE IF ~usize_lt(from, to) THEN locals
  ELSE IF usize_succ(from) = to
    THEN multiply_column_at(locals.val,
                            multiply_elem_loop(locals.val.self, locals.val.other,
                                               row, from, Ok(f64(0)),
                                               usize(0), locals.val.self.columns),
                            get_index_ok(locals.val.result, row, from))
  ELSE LET split == usize_split(from, to)
           first == multiply_column_loop(locals, row, from, split)
       IN  multiply_column_loop(first, row, split, to)

\* the iterations from .. to of the loop over row of multiply; locals is the
\* outcome of zeros and of the iterations before.  When other has no column
\* no iteration does anything, however many there are
RECURSIVE multiply_row_loop(_, _, _)
multiply_row_loop(locals, from, to) ==
  IF locals.tag = "Panic" THEN Panic
  ELSE IF ~usize_lt(from, to) \/ locals.val.other.columns = usize(0) THEN locals
  ELSE IF usize_succ(from) = to
    THEN multiply_column_loop(locals, from, usize(0), locals.val.other.columns)
  ELSE LET split == usize_split(from, to)
           first == multiply_row_loop(locals, from, split)
       IN  multiply_row_loop(first, split, to)

multiply(self, other) ==
  IF self.rows # other.columns \/ self.columns # other.rows
    THEN returns_incompatible(self, other)
    ELSE returns_result(self, other,
           multiply_row_loop(locals_of(self, other, zeros(self.rows, other.columns)),
                             usize(0), self.rows))

(* ----------------------------------------------------------- determinant *)
\* sub_m and column_index, as the loop over column has them
Filling(sub_m, column_index) == [sub_m |-> sub_m, column_index |-> column_index]

\* column_index += 1 after the set of sub_m, done being its outcome;
\* column_index is below column
sub_column_after(filling, done) ==
  IF done.ret.tag # "Ok" THEN Panic
  ELSE Ok(Filling(done.self, usize_succ(filling.column_index)))

\* sub_m.set(row - 1, column_index, cell_value), above being the outcome of
\* row - 1
sub_column_set(filling, cell_value, above) ==
  IF above.tag = "Panic" THEN Panic
  ELSE sub_column_after(filling,
                        set(filling.sub_m, above.val, filling.column_index, cell_value))

\* the iteration from cell_value on, the outcome of self.get(row, column)
sub_column_at(filling, row, cell_value) ==
  IF cell_value.tag # "Ok" THEN Panic
  ELSE sub_column_set(filling, cell_value.val, usize_sub(row, usize(1)))

\* the iterations from .. to of the loop over column that copies one row of
\* self into sub_m; filling is the outcome of the iterations before
RECURSIVE sub_column_loop(_, _, _, _, _, _)
sub_column_loop(self, column_mask, row, filling, from, to) ==
  IF filling.tag = "Panic" THEN Panic
  ELSE IF ~usize_lt(from, to) THEN filling
  ELSE IF usize_succ(from) = to
    THEN IF from = column_mask THEN filling
         ELSE sub_column_at(filling.val, row, get(self, row, from).ret)
  ELSE LET split == usize_split(from, to)
           first == sub_column_loop(self, column_mask, row, filling, from, split)
       IN  sub_column_loop(self, column_mask, row, first, split, to)

\* sub_m after the loop over column, filling being its outcome
sub_row_at(filling) == IF filling.tag = "Panic" THEN Panic ELSE Ok(filling.val.sub_m)

\* the iterations from .. to of the loop over row that fills sub_m; sub_m is
\* the outcome of square_zeros and of the iterations before
RECURSIVE sub_row_loop(_, _, _, _, _)
sub_row_loop(self, column_mask, sub_m, from, to) ==
  IF sub_m.tag = "Panic" THEN Panic
  ELSE IF ~usize_lt(from, to) THEN sub_m
  ELSE IF usize_succ(from) = to
    THEN sub_row_at(sub_column_loop(self, column_mask, from,
                                    Ok(Filling(sub_m.val, usize(0))),
                                    usize(0), self.columns))
  ELSE LET split == usize_split(from, to)
           first == sub_row_loop(self, column_mask, sub_m, from, split)
       IN  sub_row_loop(self, column_mask, first, split, to)

\* Matrix::square_zeros(dimension), dimension being the outcome of
\* self.rows - 1
sub_zeros(dimension) ==
  IF dimension.tag = "Panic" THEN Panic ELSE square_zeros(dimension.val)

\* sub_m allocated with the size of self
sub_matrix_same_size(self, column_mask) ==
  sub_row_loop(self, column_mask, square_zeros(self.rows), usize(1), self.rows)

\* sub_m as determinant builds and fills it for column_mask
sub_matrix(self, column_mask) ==
  sub_row_loop(self, column_mask, sub_zeros(usize_sub(self.rows, usize(1))),
               usize(1), self.rows)

RECURSIVE determinant(_)

\* the variables of the body of determinant that outlive an iteration of
\* its loop: self, and result
Expansion(self, result) == [self |-> self, result |-> result]

\* result += coeff * d.expect(..), d being the outcome of sub_m.determinant()
determinant_add(locals, coeff, d) ==
  IF d.tag # "Ok" THEN Panic
  ELSE Ok([locals EXCEPT !.result = fadd(@, fmul(coeff, d.val))])

\* the iteration from sub_m on, sub_m being the outcome of filling it
determinant_sub(locals, coeff, sub_m) ==
  IF sub_m.tag = "Panic" THEN Panic
  ELSE determinant_add(locals, coeff, determinant(sub_m.val).ret)

\* the iteration with every coefficient taken positive
determinant_at_unsigned(locals, column_mask, coeff_idx) ==
  IF coeff_idx.tag = "Panic" THEN Panic
  ELSE IF ~in_bounds(locals.self.data, coeff_idx.val) THEN Panic
  ELSE determinant_sub(locals, at(locals.self.data, coeff_idx.val),
                       sub_matrix(locals.self, column_mask))

\* if column_mask % 2 == 0 { 1.0 } else { -1.0 }
coeff_sign(column_mask) == IF column_mask[1] % 2 = 0 THEN f64(1) ELSE f64(-1)

\* the iteration of column_mask, coeff_idx being the outcome of get_index_ok
determinant_at(locals, column_mask, coeff_idx) ==
  IF coeff_idx.tag = "Panic" THEN Panic
  ELSE IF ~in_bounds(locals.self.data, coeff_idx.val) THEN Panic
  ELSE determinant_sub(locals,
                       fmul(coeff_sign(column_mask), at(locals.self.data, coeff_idx.val)),
                       sub_matrix(locals.self, column_mask))

\* the iterations from .. to of the loop over column_mask of determinant;
\* locals is the outcome of the iterations before
RECURSIVE determinant_loop(_, _, _)
determinant_loop(locals, from, to) ==
  IF locals.tag = "Panic" THEN Panic
  ELSE IF ~usize_lt(from, to) THEN locals
  ELSE IF usize_succ(from) = to
    THEN determinant_at(locals.val, from, get_index_ok(locals.val.self, usize(0), from))
  ELSE LET split == usize_split(from, to)
           first == determinant_loop(locals, from, split)
       IN  determinant_loop(first, split, to)

\* self.data[0] * self.data[3] - self.data[1] * self.data[2]
determinant_two(self) ==
  IF Len(self.data) < 4 THEN Panic
  ELSE Ok(fsub(fmul(self.data[1], self.data[4]), fmul(self.data[2], self.data[3])))

\* Ok(result), locals being the outcome of the loop: what the call leaves
determinant_result(self, locals) ==
  IF locals.tag = "Panic" THEN [self |-> self, ret |-> Panic]
  ELSE [self |-> locals.val.self, ret |-> Ok(locals.val.result)]

\* determinant with a base case for one row as well
determinant_base_one(self) ==
  IF self.rows # self.columns THEN [self |-> self, ret |-> Err(SquareMatrixRequired)]
  ELSE IF self.rows = usize(1)
    THEN [self |-> self, ret |-> IF Len(self.data) < 1 THEN Panic ELSE Ok(self.data[1])]
  ELSE IF self.rows = usize(2) THEN [self |-> self, ret |-> determinant_two(self)]
  ELSE determinant_result(self, determinant_loop(Ok(Expansion(self, f64(0))),
                                                 usize(0), self.columns))

determinant(self) ==
  IF self.rows # self.columns THEN [self |-> self, ret |-> Err(SquareMatrixRequired)]
  ELSE IF self.rows = usize(2) THEN [self |-> self, ret |-> determinant_two(self)]
  ELSE determinant_result(self, determinant_loop(Ok(Expansion(self, f64(0))),
                                                 usize(0), self.columns))

(* --------------------------------------- the Matrix of the maths crate *)
(* vector3.rs takes its Matrix from crate::matrix of the maths crate.  new *)
(* and determinant of that Matrix are taken as the specification gives     *)
(* them: new fails with IncorrectDataSize unless the data holds            *)
(* rows * columns values; determinant fails with SquareMatrixRequired      *)
(* unless rows = columns, is ad - bc on a 2 x 2 matrix, and is otherwise   *)
(* the expansion along row 0, the coefficient of column_mask being +1 when *)
(* column_mask is even and -1 otherwise, on the submatrices without row 0  *)
(* and column column_mask.  rows and columns are numbers here.             *)
matrix_new(rows, columns, data) ==
  IF Len(data) # rows * columns THEN Err(IncorrectDataSize)
  ELSE Ok(Matrix(rows, columns, data))

\* self without row 0 and column column_mask, the rows 1 .. n in order
matrix_minor(self, column_mask) ==
  LET n == self.rows - 1
  IN  Matrix(n, n,
             [k \in 1..(n * n) |->
                LET r == ((k - 1) \div n) + 1
                    c == (k - 1) % n
                IN  self.data[(IF c < column_mask THEN c ELSE c + 1)
                                + r * self.columns + 1]])

RECURSIVE matrix_determinant(_)

\* the signed products of the columns column_mask .. columns - 1, summed
RECURSIVE matrix_expansion(_, _)
matrix_expansion(self, column_mask) ==
  IF column_mask >= self.columns THEN f64(0)
  ELSE LET sign == IF column_mask % 2 = 0 THEN f64(1) ELSE f64(-1)
           minor == matrix_determinant(matrix_minor(self, column_mask))
           rest == matrix_expansion(self, column_mask + 1)
       IN  fadd(fmul(fmul(sign, self.data[column_mask + 1]), minor.val), rest)

matrix_determinant(self) ==
  IF self.rows # self.columns THEN Err(SquareMatrixRequired)
  ELSE IF self.rows = 2
    THEN Ok(fsub(fmul(self.data[1], self.data[4]), fmul(self.data[2], self.data[3])))
  ELSE Ok(matrix_expansion(self, 0))

(* --------------------------------------------------------------- Vector3 *)
Vector3(x, y, z) == [x |-> x, y |-> y, z |-> z]

\* .unwrap() / .expect(..) on the outcome res
expect(res) == IF res.tag = "Ok" THEN res ELSE Panic

\* matrix!(rows: .., cols: .., ..): Matrix::new(..).unwrap(), rows and cols
\* being numbers
matrix_macro(rows, cols, data) == expect(matrix_new(rows, cols, data))

\* m.determinant() on the outcome m of matrix!
determinant_of(m) == IF m.tag # "Ok" THEN Panic ELSE matrix_determinant(m.val)

\* matrix!(..).determinant().expect(..)
determinant_expect(m) == expect(determinant_of(m))

dot_product(self, other) ==
  fadd(fadd(fmul(self.x, other.x), fmul(self.y, other.y)), fmul(self.z, other.z))

\* Vector3::new(x, -1.0 * y, z) with the rows of the matrix of z exchanged
cross_product_z_swapped(self, other) ==
  LET x == determinant_expect(matrix_macro(2, 2, <<self.y, self.z, other.y, other.z>>))
      y == determinant_expect(matrix_macro(2, 2, <<self.x, self.z, other.x, other.z>>))
      z == determinant_expect(matrix_macro(2, 2, <<other.x, other.y, self.x, self.y>>))
  IN  IF x.tag # "Ok" \/ y.tag # "Ok" \/ z.tag # "Ok" THEN Panic
      ELSE Ok(Vector3(x.val, fmul(f64(-1), y.val), z.val))

\* cross_product without the factor -1.0 of y
cross_product_unsigned_y(self, other) ==
  LET x == determinant_expect(matrix_macro(2, 2, <<self.y, self.z, other.y, other.z>>))
      y == determinant_expect(matrix_macro(2, 2, <<self.x, self.z, other.x, other.z>>))
      z == determinant_expect(matrix_macro(2, 2, <<self.x, self.y, other.x, other.y>>))
  IN  IF x.tag # "Ok" \/ y.tag # "Ok" \/ z.tag # "Ok" THEN Panic
      ELSE Ok(Vector3(x.val, y.val, z.val))

\* Vector3::new(x, -1.0 * y, z), x, y and z being the outcomes of the three
\* determinants
cross_product_of(x, y, z) ==
  IF x.tag # "Ok" \/ y.tag # "Ok" \/ z.tag # "Ok" THEN Panic
  ELSE Ok(Vector3(x.val, fmul(f64(-1), y.val), z.val))

cross_product(self, other) ==
  cross_product_of(
    determinant_expect(matrix_macro(2, 2, <<self.y, self.z, other.y, other.z>>)),
    determinant_expect(matrix_macro(2, 2, <<self.x, self.z, other.x, other.z>>)),
    determinant_expect(matrix_macro(2, 2, <<self.x, self.y, other.x, other.y>>)))

(* ------------------------------------------------------------ the caller *)
None == [tag |-> "None"]

\* values handed to set
Vals == {f64(-1), f64(2)}
\* data handed to new: n values of the pattern with seed sd
Seeds == {1}
DetSeeds == {1, 3}
Pattern(n, sd) == [i \in 1..n |-> f64(((i * sd) % 7) - 3)]
\* the Vec of the numbers s
f64s(s) == [i \in DOMAIN s |-> f64(s[i])]
\* the matrices of the tests of determinant
TestData ==
  { f64s(<<1, 2, 3, 4>>),
    f64s(<<1, 2, 3, 4, 5, 6, 7, 8, 9>>),
    f64s(<<-3, 2, -5, -1, 0, -2, 3, -4, 1>>),
    f64s(<<6, 1, 1, 4, -2, 5, 2, 8, 7>>),
    f64s(<<1, 2, 3, 4, 5, 6, 7, 8, 9, 10, 11, 12, 2, 6, 4, 8>>),
    f64s(<<3, 2, 0, 1, 4, 0, 1, 2, 3, 0, 2, 1, 9, 2, 3, 1>>) }

Slots == {"a", "b"}
slot(s) == IF s = "a" THEN a ELSE b

\* the operands of a call as it begins; kept is recorded for the calls that
\* are made while the caller holds a returned matrix (set)
Snapshot == [a |-> a, b |-> b, kept |-> None]
NoWrites == [c \in {} |-> 0]

\* the program runs until a call panics
Running == out.ret.tag # "Panic"

\* the caller moves on to position n, never back
Stage(n) == Running /\ stage <= n /\ stage' = n
\* the caller constructs a with new at position 0, and returns (position 5)
\* when new fails
StageNew(res) == Running /\ stage <= 0 /\ stage' = IF res.tag = "Ok" THEN 0 ELSE 5

\* let mut a = m  /  let b = m
Bind(s, m) ==
  IF s = "a"
    THEN /\ a' = m
         /\ nsets' = 0
         /\ base' = m.data
         /\ written' = NoWrites
         /\ UNCHANGED b
    ELSE /\ b' = m
         /\ UNCHANGED <<a, nsets, base, written>>

Init ==
  /\ build \in Builds
  /\ memory \in Memories
  /\ a = Matrix(usize(0), usize(0), <<>>)
  /\ b = Matrix(usize(0), usize(0), <<>>)
  /\ kept = None
  /\ out = [op |-> "init", args |-> <<>>, ret |-> Ok(<<>>)]
  /\ pre = [a |-> Matrix(usize(0), usize(0), <<>>), b |-> Matrix(usize(0), usize(0), <<>>), kept |-> None]
  /\ nsets = 0
  /\ base = <<>>
  /\ written = NoWrites
  /\ stage = 0
  /\ stack = <<>>

\* s = Matrix::new(rows, columns, data), bound when it is Ok
CallNew(s, rows, columns, data) ==
  LET res == new(rows, columns, data)
  IN  /\ out' = [op |-> "new", args |-> <<s, rows, columns, data>>, ret |-> res]
      /\ IF res.tag = "Ok" THEN Bind(s, res.val)
                            ELSE UNCHANGED <<a, b, nsets, base, written>>
      /\ pre' = [a |-> a', b |-> b', kept |-> None]
      /\ UNCHANGED <<stack, build, memory>>
      /\ kept' = None

\* s = Matrix::zeros(rows, columns)
CallZeros(s, rows, columns) ==
  /\ out' = [op |-> "zeros", args |-> <<s, rows, columns>>, ret |-> zeros(rows, columns)]
  /\ IF zeros(rows, columns).tag = "Ok"
       THEN Bind(s, zeros(rows, columns).val)
       ELSE UNCHANGED <<a, b, nsets, base, written>>
  /\ pre' = [a |-> a', b |-> b', kept |-> None]
  /\ UNCHANGED <<stack, build, memory>>
  /\ kept' = None

\* s = Matrix::square_zeros(dimension)
CallSquareZeros(s, dimension) ==
  /\ out' = [op |-> "square_zeros", args |-> <<s, dimension>>,
             ret |-> square_zeros(dimension)]
  /\ IF square_zeros(dimension).tag = "Ok"
       THEN Bind(s, square_zeros(dimension).val)
       ELSE UNCHANGED <<a, b, nsets, base, written>>
  /\ pre' = [a |-> a', b |-> b', kept |-> None]
  /\ UNCHANGED <<stack, build, memory>>
  /\ kept' = None

\* s = Matrix::identity(rows)
CallIdentity(s, rows) ==
  LET res == identity(rows)
  IN  /\ out' = [op |-> "identity", args |-> <<s, rows>>, ret |-> res]
      /\ IF res.tag = "Ok" THEN Bind(s, res.val)
                            ELSE UNCHANGED <<a, b, nsets, base, written>>
      /\ pre' = [a |-> a', b |-> b', kept |-> None]
      /\ UNCHANGED <<stack, build, memory>>
      /\ kept' = None

\* the caller's a and b after a call on s that borrowed t: what the call
\* leaves of self is s afterwards, and what it leaves of other is t
Borrowed(s, t, done) ==
  /\ a' = IF s = "a" THEN done.self ELSE IF t = "a" THEN done.other ELSE a
  /\ b' = IF s = "b" THEN done.self ELSE IF t = "b" THEN done.other ELSE b

\* s.get(row, column)
CallGet(s, row, column) ==
  LET done == get(slot(s), row, column)
  IN  /\ out' = [op |-> "get", args |-> <<s, row, column>>, ret |-> done.ret]
      /\ Borrowed(s, s, done)
      /\ pre' = Snapshot
      /\ UNCHANGED <<stack, build, memory>>
      /\ kept' = None
      /\ UNCHANGED <<nsets, base, written>>

\* a.set(row, column, value)
CallSet(row, column, value) ==
  LET done == set(a, row, column, value)
  IN  /\ out' = [op |-> "set", args |-> <<"a", row, column, value>>, ret |-> done.ret]
      /\ a' = done.self
      /\ nsets' = IF done.ret.tag = "Ok" THEN nsets + 1 ELSE nsets
      /\ written' = IF done.ret.tag = "Ok"
                       THEN [c \in DOMAIN written \cup {<<row, column>>} |->
                               IF c = <<row, column>> THEN value ELSE written[c]]
                       ELSE written
      /\ pre' = [a |-> a, b |-> b, kept |-> kept]
      /\ UNCHANGED <<stack, build, memory>>
      /\ UNCHANGED <<b, kept, base>>

\* kept = s.sum(&t) when it is Ok
CallSum(s, t) ==
  LET done == sum(slot(s), slot(t))
  IN  /\ out' = [op |-> "sum", args |-> <<s, t>>, ret |-> done.ret]
      /\ kept' = IF done.ret.tag = "Ok" THEN done.ret.val ELSE None
      /\ Borrowed(s, t, done)
      /\ pre' = Snapshot
      /\ UNCHANGED <<stack, build, memory>>
      /\ UNCHANGED <<nsets, base, written>>

\* kept = s.multiply(&t) when it is Ok
CallMultiply(s, t) ==
  LET done == multiply(slot(s), slot(t))
  IN  /\ out' = [op |-> "multiply", args |-> <<s, t>>, ret |-> done.ret]
      /\ kept' = IF done.ret.tag = "Ok" THEN done.ret.val ELSE None
      /\ Borrowed(s, t, done)
      /\ pre' = Snapshot
      /\ UNCHANGED <<stack, build, memory>>
      /\ UNCHANGED <<nsets, base, written>>

\* s.determinant()
CallDeterminant(s) ==
  LET done == determinant(slot(s))
  IN  /\ out' = [op |-> "determinant", args |-> <<s>>, ret |-> done.ret]
      /\ Borrowed(s, s, done)
      /\ pre' = Snapshot
      /\ UNCHANGED <<stack, build, memory>>
      /\ kept' = None
      /\ UNCHANGED <<nsets, base, written>>

Dims == 0..MaxDim
AccDims == 0..AccDim
DetDims == 0..DetDim
\* dimensions whose products leave usize, 2^32 and 2^63 + 1, and the shapes
\* that have one: 2^32 x 2^32 is 2^64 values and (2^63 + 1) x 2 is 2^64 + 2
WideDims == {Two32, usize_succ(Two63)}
WideShapes == { <<Two32, Two32>>, <<Two32, usize(0)>>, <<usize(0), Two32>>,
                <<usize_succ(Two63), usize(2)>>, <<usize(2), usize_succ(Two63)>>,
                <<usize_succ(Two63), usize_succ(Two63)>> }
\* shapes of 2^31 and of 2^32 values, 16 GiB and 32 GiB, and the least
\* dimension whose square is 2^31 values or more
LargeShapes == { <<usize(65536), usize(32768)>>, <<Two32, usize(1)>> }
LargeDims == {usize(46341)}
\* the machine does not grant an allocation of rows * columns values
Refused(rows, columns) == ~usize_lt(usize_mul_wrapped(rows, columns), memory)
\* the lengths of the data handed to new with such a shape
WideLens == {0, 1, 2}
\* the rows handed to get and set: within AccDim, and 2^63
AccIndices == {usize(n) : n \in AccDims} \cup {Two63}
\* the cells the caller of Spec writes: the first cell, and cells out of range
Corners == {0, MaxDim}

(* position 0: a is constructed, from data of every length *)
New == \E rows \in Dims, columns \in Dims, n \in 0..(MaxDim * MaxDim + 1), sd \in Seeds :
         /\ StageNew(new(usize(rows), usize(columns), Pattern(n, sd)))
         /\ CallNew("a", usize(rows), usize(columns), Pattern(n, sd))
Zeros == \E rows \in Dims, columns \in Dims : Stage(0) /\ CallZeros("a", usize(rows), usize(columns))
SquareZeros == \E dimension \in Dims : Stage(0) /\ CallSquareZeros("a", usize(dimension))
Identity == \E rows \in Dims : Stage(0) /\ CallIdentity("a", usize(rows))

(* position 0 as well: a is constructed with a dimension of 2^32 or more *)
NewWide == \E sh \in WideShapes, n \in WideLens, sd \in Seeds :
             /\ StageNew(new(sh[1], sh[2], Pattern(n, sd)))
             /\ CallNew("a", sh[1], sh[2], Pattern(n, sd))
ZerosWide == \E sh \in WideShapes : Stage(0) /\ CallZeros("a", sh[1], sh[2])
SquareZerosWide == \E dimension \in WideDims : Stage(0) /\ CallSquareZeros("a", dimension)
IdentityWide == \E rows \in WideDims : Stage(0) /\ CallIdentity("a", rows)

(* position 0 as well: a is asked for with 2 GiB of values or more, on the
   machine that does not grant them (where they are granted, a is of more
   values than are enumerated here) *)
ZerosLarge == \E sh \in LargeShapes :
                Stage(0) /\ Refused(sh[1], sh[2]) /\ CallZeros("a", sh[1], sh[2])
SquareZerosLarge == \E dimension \in LargeDims :
                      /\ Stage(0) /\ Refused(dimension, dimension)
                      /\ CallSquareZeros("a", dimension)
IdentityLarge == \E rows \in LargeDims :
                   Stage(0) /\ Refused(rows, rows) /\ CallIdentity("a", rows)

(* position 1: a is read, written and computed with alone *)
Get == \E row \in Dims, column \in Dims :
         Stage(1) /\ CallGet("a", usize(row), usize(column))
Set == \E row \in Corners, column \in Corners, value \in Vals :
         /\ Stage(1) /\ kept = None
         /\ set(a, usize(row), usize(column), value).ret.tag = "Ok" => nsets < MixSets
         /\ CallSet(usize(row), usize(column), value)
SumSelf == Stage(1) /\ CallSum("a", "a")
MultiplySelf == Stage(1) /\ CallMultiply("a", "a")
Determinant == Stage(1) /\ CallDeterminant("a")

(* position 2: b is constructed, from data that fits *)
NewOther == \E rows \in Dims, columns \in Dims, sd \in Seeds :
              Stage(2) /\ CallNew("b", usize(rows), usize(columns), Pattern(rows * columns, sd))

ZerosOtherWide == \E sh \in WideShapes : Stage(2) /\ CallZeros("b", sh[1], sh[2])

(* position 3: a and b are computed with *)
Sum == \E s \in Slots, t \in Slots : Stage(3) /\ s # t /\ CallSum(s, t)
Multiply == \E s \in Slots, t \in Slots : Stage(3) /\ s # t /\ CallMultiply(s, t)

(* position 4: a is written while the caller holds a returned matrix *)
SetAfter == \E row \in Corners, value \in Vals :
              /\ Running /\ stage \in {1, 3} /\ kept # None
              /\ stage' = 4
              /\ CallSet(usize(row), usize(row), value)

Next ==
  \/ New
  \/ Zeros
  \/ SquareZeros
  \/ Identity
  \/ NewWide
  \/ ZerosWide
  \/ SquareZerosWide
  \/ IdentityWide
  \/ ZerosLarge
  \/ SquareZerosLarge
  \/ IdentityLarge
  \/ Get
  \/ Set
  \/ SumSelf
  \/ MultiplySelf
  \/ Determinant
  \/ NewOther
  \/ ZerosOtherWide
  \/ Sum
  \/ Multiply
  \/ SetAfter

Spec == Init /\ [][Next]_vars

(* the caller that constructs a matrix up to AccDim x AccDim, reads every  *)
(* cell and writes up to MaxSets of them                                   *)
NewSmall == \E rows \in AccDims, columns \in AccDims, n \in 0..(AccDim * AccDim + 1),
               sd \in Seeds :
              /\ StageNew(new(usize(rows), usize(columns), Pattern(n, sd)))
              /\ CallNew("a", usize(rows), usize(columns), Pattern(n, sd))
ZerosSmall == \E rows \in AccDims, columns \in AccDims :
                Stage(0) /\ CallZeros("a", usize(rows), usize(columns))
IdentitySmall == \E rows \in AccDims : Stage(0) /\ CallIdentity("a", usize(rows))
GetAny == \E row \in AccIndices, column \in AccDims :
            Stage(1) /\ CallGet("a", row, usize(column))
SetAny == \E row \in AccIndices, column \in AccDims, value \in Vals :
            /\ Stage(1)
            /\ set(a, row, usize(column), value).ret.tag = "Ok" => nsets < MaxSets
            /\ CallSet(row, usize(column), value)

NextAccess ==
  \/ NewSmall
  \/ ZerosSmall
  \/ IdentitySmall
  \/ NewWide
  \/ ZerosWide
  \/ GetAny
  \/ SetAny

SpecAccess == Init /\ [][NextAccess]_vars

(* the caller that takes determinants of square matrices up to DetDim,     *)
(* after up to MixSets writes in their first two rows                      *)
NewSquare == \E n \in DetDims :
               \E data \in TestData \cup {Pattern(n * n, sd) : sd \in DetSeeds} :
                 /\ StageNew(new(usize(n), usize(n), data))
                 /\ CallNew("a", usize(n), usize(n), data)
SquareZerosUpTo == \E dimension \in DetDims : Stage(0) /\ CallSquareZeros("a", usize(dimension))
IdentityUpTo == \E rows \in DetDims : Stage(0) /\ CallIdentity("a", usize(rows))
SetInRange == \E row \in {0, 1}, column \in DetDims, value \in Vals :
                /\ Stage(1)
                /\ usize_lt(usize(row), a.rows) /\ usize_lt(usize(column), a.columns)
                /\ nsets < MixSets
                /\ CallSet(usize(row), usize(column), value)

NextDet ==
  \/ NewSquare
  \/ SquareZerosUpTo
  \/ IdentityUpTo
  \/ SetInRange
  \/ Determinant

SpecDet == Init /\ [][NextDet]_vars

(* the caller that constructs two Vector3, takes their cross products and  *)
(* the dot products of the operands and of a cross product with them       *)
Components == (-VecMax)..VecMax
\* the operands of the tests of cross_product
\* the Vector3 of the numbers x, y and z
vector3(x, y, z) == Vector3(f64(x), f64(y), f64(z))
TestVectors == {vector3(1, 0, 0), vector3(0, 1, 0), vector3(2, -1, 3), vector3(0, 4, -2)}
Vectors == {vector3(x, y, z) : x \in Components, y \in Components, z \in Components}
             \cup TestVectors

InitVector ==
  /\ build \in Builds
  /\ memory \in Memories
  /\ a = vector3(0, 0, 0)
  /\ b = vector3(0, 0, 0)
  /\ kept = None
  /\ out = [op |-> "init", args |-> <<>>, ret |-> Ok(<<>>)]
  /\ pre = [a |-> vector3(0, 0, 0), b |-> vector3(0, 0, 0), kept |-> None]
  /\ nsets = 0
  /\ base = <<>>
  /\ written = NoWrites
  /\ stage = 0
  /\ stack = <<>>

\* s = Vector3::new(x, y, z)
CallVector3New(s, v) ==
  /\ out' = [op |-> "vector3_new", args |-> <<s, v.x, v.y, v.z>>, ret |-> Ok(v)]
  /\ IF s = "a" THEN a' = v /\ b' = b ELSE b' = v /\ a' = a
  /\ pre' = [a |-> a', b |-> b', kept |-> None]
  /\ UNCHANGED <<stack, build, memory>>
  /\ kept' = None
  /\ UNCHANGED <<nsets, base, written>>

\* kept = s.cross_product(&t)
CallCrossProduct(s, t) ==
  LET res == cross_product(slot(s), slot(t))
  IN  /\ out' = [op |-> "cross_product", args |-> <<s, t>>, ret |-> res]
      /\ kept' = IF res.tag = "Ok" THEN res.val ELSE None
      /\ pre' = Snapshot
      /\ UNCHANGED <<stack, build, memory>>
      /\ UNCHANGED <<a, b, nsets, base, written>>

\* kept.dot_product(&t)
CallDotProduct(t) ==
  /\ out' = [op |-> "dot_product", args |-> <<"kept", t>>,
             ret |-> Ok(dot_product(kept, slot(t)))]
  /\ pre' = [a |-> a, b |-> b, kept |-> kept]
  /\ UNCHANGED <<stack, build, memory>>
  /\ UNCHANGED <<a, b, kept, nsets, base, written>>

NewVectorA == \E v \in Vectors : Stage(0) /\ CallVector3New("a", v)
NewVectorB == \E v \in Vectors : Stage(1) /\ stage = 0 /\ CallVector3New("b", v)
CrossProduct == \E s \in Slots, t \in Slots :
                  Running /\ stage \in {0, 1} /\ stage' = 2 /\ CallCrossProduct(s, t)
DotProduct == \E t \in Slots :
                Running /\ stage = 2 /\ kept # None /\ stage' = 3 /\ CallDotProduct(t)

NextVector ==
  \/ NewVectorA
  \/ NewVectorB
  \/ CrossProduct
  \/ DotProduct

SpecVector == InitVector /\ [][NextVector]_vars

(* the caller that takes the determinant of a square matrix, the call      *)
(* followed frame by frame: a frame is one activation of determinant, with *)
(* its loop variable column_mask, its accumulator result and the number of *)
(* recursive calls it has made                                             *)
Frame(self) ==
  [self |-> self, column_mask |-> usize(0), result |-> f64(0), calls |-> 0]
Top == stack[Len(stack)]

\* the call of determinant on a ends with res, frame being its activation
DeterminantEnds(frame, res) ==
  /\ stack' = <<>>
  /\ out' = [op |-> "determinant", args |-> <<"a">>, ret |-> res,
             frame |-> frame, depth |-> Len(stack)]
  /\ stage' = 2

\* the topmost activation returns res to its caller
Return(res) ==
  IF Len(stack) = 1 THEN DeterminantEnds(Top, res)
  ELSE IF res.tag # "Ok" THEN DeterminantEnds(Top, Panic)
  ELSE LET parent == stack[Len(stack) - 1]
           coeff_idx == get_index_ok(parent.self, usize(0), parent.column_mask)
           coeff == fmul(coeff_sign(parent.column_mask),
                         at(parent.self.data, coeff_idx.val))
       IN  /\ stack' = [i \in 1..(Len(stack) - 1) |->
                          IF i = Len(stack) - 1
                            THEN [parent EXCEPT !.column_mask = usize_succ(@),
                                                !.result = fadd(@, fmul(coeff, res.val))]
                            ELSE stack[i]]
           /\ out' = [op |-> "return", args |-> <<"a">>, ret |-> res,
                      frame |-> Top, depth |-> Len(stack)]
           /\ stage' = stage

\* a.determinant() is called
DeterminantCall ==
  /\ Running /\ stage <= 1 /\ stack = <<>>
  /\ stack' = <<Frame(a)>>
  /\ out' = [op |-> "call", args |-> <<"a">>, ret |-> None]
  /\ stage' = 1
  /\ pre' = Snapshot
  /\ kept' = None
  /\ UNCHANGED <<a, b, nsets, base, written, build, memory>>

\* the topmost activation goes on to its next return or recursive call
DeterminantStep ==
  /\ stack # <<>>
  /\ LET self == Top.self
     IN  IF self.rows # self.columns THEN Return(Err(SquareMatrixRequired))
         ELSE IF self.rows = usize(2)
           THEN IF determinant_two(self).tag = "Panic" THEN DeterminantEnds(Top, Panic)
                ELSE Return(determinant_two(self))
         ELSE IF ~usize_lt(Top.column_mask, self.columns) THEN Return(Ok(Top.result))
         ELSE LET coeff_idx == get_index_ok(self, usize(0), Top.column_mask)
                  sub_m == sub_matrix(self, Top.column_mask)
              IN  IF \/ coeff_idx.tag = "Panic"
                     \/ ~in_bounds(self.data, coeff_idx.val)
                     \/ sub_m.tag = "Panic"
                    THEN DeterminantEnds(Top, Panic)
                    ELSE /\ stack' = Append([stack EXCEPT ![Len(stack)].calls = @ + 1],
                                            Frame(sub_m.val))
                         /\ out' = [op |-> "call", args |-> <<"a">>, ret |-> None]
                         /\ stage' = stage
  /\ UNCHANGED <<a, b, kept, pre, nsets, base, written, build, memory>>

NextRecursion ==
  \/ NewSquare
  \/ SquareZerosUpTo
  \/ IdentityUpTo
  \/ NewWide
  \/ SquareZerosWide
  \/ DeterminantCall
  \/ DeterminantStep

SpecRecursion == Init /\ [][NextRecursion]_vars

(* the caller that takes the determinant of a square matrix of fewer than  *)
(* 2 rows, whose value is any f64 of the model, after up to MaxSets writes *)
Floats == {f64(v) : v \in (-FloatMax)..FloatMax} \cup {Infinity, NegInfinity, NaN}
SmallDims == {0, 1}

NewTiny == \E n \in SmallDims, v \in Floats :
             /\ StageNew(new(usize(n), usize(n), [i \in 1..(n * n) |-> v]))
             /\ CallNew("a", usize(n), usize(n), [i \in 1..(n * n) |-> v])
SquareZerosTiny == \E dimension \in SmallDims : Stage(0) /\ CallSquareZeros("a", usize(dimension))
IdentityTiny == \E rows \in SmallDims : Stage(0) /\ CallIdentity("a", usize(rows))
SetTiny == \E value \in Floats :
             /\ Stage(1)
             /\ set(a, usize(0), usize(0), value).ret.tag = "Ok" => nsets < MaxSets
             /\ CallSet(usize(0), usize(0), value)

NextSmall ==
  \/ NewTiny
  \/ SquareZerosTiny
  \/ IdentityTiny
  \/ SetTiny
  \/ Determinant

SpecSmall == Init /\ [][NextSmall]_vars

(* ---------------------------------------------------------------- claims *)
\* the element (r, c) of row-major data with the given number of columns,
\* r, c and columns being numbers
Elem(data, columns, r, c) == data[c + r * columns + 1]
\* the number n is rows * columns, the exact product
SizeIs(n, rows, columns) == usize_mul_exact(rows, columns) = usize(n) \o <<0, 0, 0, 0>>
\* c + r * columns, the exact sum, is below 2^64, and then it is Position
PositionFits(columns, r, c) ==
  ~usize_mul_over(r, columns) /\ ~usize_add_over(c, usize_mul_wrapped(r, columns))
Position(columns, r, c) == usize_add_wrapped(c, usize_mul_wrapped(r, columns))
\* res is Ok(data[c + r * columns])
IsElem(res, data, columns, r, c) ==
  /\ res.tag = "Ok"
  /\ PositionFits(columns, r, c)
  /\ in_bounds(data, Position(columns, r, c))
  /\ res.val = at(data, Position(columns, r, c))
\* the cells of m, all of them when m has up to MaxDim rows and columns,
\* and those of the rows and columns up to MaxDim and 2^63 otherwise
SmallIndices == 0..MaxDim
Indices == {usize(n) : n \in SmallIndices} \cup {Two63}
Rows(m) == {r \in Indices : usize_lt(r, m.rows)}
Columns(m) == {c \in Indices : usize_lt(c, m.columns)}
Cells(m) == Rows(m) \X Columns(m)

\* C1: new returns Err(IncorrectDataSize) exactly when the length of data
\* is not rows * columns; otherwise it returns Ok with a matrix that keeps
\* rows, columns and data, which the caller binds, and get(r, c) on it
\* returns data[c + r * columns] for every cell, also when the caller calls
\* get on the matrix as constructed.
C1_NewContract ==
  /\ out.op = "new" =>
       LET rows == out.args[2]
           columns == out.args[3]
           data == out.args[4]
       IN  IF ~SizeIs(Len(data), rows, columns)
             THEN out.ret = Err(IncorrectDataSize)
             ELSE /\ out.ret = Ok(Matrix(rows, columns, data))
                  /\ slot(out.args[1]) = Matrix(rows, columns, data)
                  /\ \A c \in Cells(out.ret.val) :
                       IsElem(get(out.ret.val, c[1], c[2]).ret, data, columns, c[1], c[2])
  /\ (out.op = "get" /\ nsets = 0 /\ <<out.args[2], out.args[3]>> \in Cells(a)) =>
       IsElem(out.ret, base, a.columns, out.args[2], out.args[3])

\* the matrices sub_m that determinant builds and fills for self, at every
\* depth: those of the iterations of the loop over column_mask in their
\* order, up to the first one that panics
RECURSIVE sub_matrices(_)
RECURSIVE sub_matrices_from(_, _)
sub_matrices_from(self, column_mask) ==
  IF ~usize_lt(column_mask, self.columns) THEN {}
  ELSE LET coeff_idx == get_index_ok(self, usize(0), column_mask)
           sub_m == sub_matrix(self, column_mask)
       IN  IF coeff_idx.tag = "Panic" THEN {}
           ELSE IF ~in_bounds(self.data, coeff_idx.val) THEN {}
           ELSE IF sub_m.tag = "Panic" THEN {}
           ELSE {sub_m.val} \cup sub_matrices(sub_m.val)
                  \cup IF determinant(sub_m.val).ret.tag = "Ok"
                         THEN sub_matrices_from(self, usize_succ(column_mask))
                         ELSE {}

sub_matrices(self) ==
  IF self.rows # self.columns \/ self.rows = usize(2) THEN {}
  ELSE sub_matrices_from(self, usize(0))

WellFormed(m) == SizeIs(Len(m.data), m.rows, m.columns)

\* C2: every matrix that exists has rows * columns values: the caller's
\* matrices before and after every call, every matrix a constructor, sum or
\* multiply returns, and every matrix determinant builds.
C2_DataSize ==
  /\ WellFormed(a) /\ WellFormed(b) /\ WellFormed(pre.a) /\ WellFormed(pre.b)
  /\ kept # None => WellFormed(kept)
  /\ pre.kept # None => WellFormed(pre.kept)
  /\ (out.op \in {"new", "zeros", "square_zeros", "identity", "sum", "multiply"}
        /\ out.ret.tag = "Ok") => WellFormed(out.ret.val)
  /\ out.op = "determinant" => \A m \in sub_matrices(a) : WellFormed(m)

\* C3: get and set with row >= rows or column >= columns return
\* Err(InvalidIndex(row, column)) with the coordinates as passed, and leave
\* the matrix as it was.
C3_InvalidIndex ==
  out.op \in {"get", "set"} =>
    LET row == out.args[2]
        column == out.args[3]
    IN  (~usize_lt(row, pre.a.rows) \/ ~usize_lt(column, pre.a.columns)) =>
          /\ out.ret = Err(InvalidIndex(row, column))
          /\ a = pre.a

\* a set of row 0, column 2 of a written 2 x 2 matrix
C3_Witness ==
  /\ out.op = "set" /\ out.args[2] = usize(0) /\ out.args[3] = usize(2)
  /\ out.ret.tag = "Err"
  /\ a.rows = usize(2) /\ a.columns = usize(2) /\ nsets = 1

\* res is what get(r, c) is to return on a: the most recent successful set
\* at (r, c), or the value a was constructed with
Expected(res, r, c) ==
  IF <<r, c>> \in DOMAIN written THEN res = Ok(written[<<r, c>>])
  ELSE IsElem(res, base, a.columns, r, c)

\* C4: a successful set(row, column, value) changes the element at
\* (row, column) and nothing else; so get(r, c) returns the value of the most
\* recent successful set at (r, c), or the value the matrix was constructed
\* with, whatever sets failed in between.
C4_SetFrame ==
  /\ (out.op = "set" /\ out.ret.tag = "Ok") =>
       LET row == out.args[2]
           column == out.args[3]
           value == out.args[4]
       IN  /\ a.rows = pre.a.rows /\ a.columns = pre.a.columns
           /\ Len(a.data) = Len(pre.a.data)
           /\ \A c \in Cells(a) :
                IF c = <<row, column>>
                  THEN IsElem(Ok(value), a.data, a.columns, c[1], c[2])
                  ELSE /\ get(a, c[1], c[2]).ret = get(pre.a, c[1], c[2]).ret
                       /\ IsElem(get(a, c[1], c[2]).ret, a.data, a.columns, c[1], c[2])
  /\ \A c \in Cells(a) : Expected(get(a, c[1], c[2]).ret, c[1], c[2])
  /\ (out.op = "get" /\ <<out.args[2], out.args[3]>> \in Cells(a)) =>
       Expected(out.ret, out.args[2], out.args[3])

\* the operands of the last call, as they were when it began
Operand(i) == IF out.args[i] = "a" THEN pre.a ELSE pre.b

\* C5: a.sum(b) returns Err(IncompatibleDimensions) exactly when the rows or
\* the columns of a and b differ; otherwise it returns Ok with a matrix of
\* the shape of a whose element at every (r, c) is a[r, c] + b[r, c].
C5_SumContract ==
  out.op = "sum" =>
    LET x == Operand(1)
        y == Operand(2)
    IN  IF x.rows # y.rows \/ x.columns # y.columns
          THEN out.ret = Err(IncompatibleDimensions)
          ELSE /\ out.ret.tag = "Ok"
               /\ out.ret.val.rows = x.rows /\ out.ret.val.columns = x.columns
               /\ Len(out.ret.val.data) = Len(x.data)
               /\ \A c \in Cells(x) :
                    LET xe == get(x, c[1], c[2]).ret
                        ye == get(y, c[1], c[2]).ret
                        re == get(out.ret.val, c[1], c[2]).ret
                    IN  IF xe.tag = "Ok" /\ ye.tag = "Ok"
                          THEN re = Ok(fadd(xe.val, ye.val))
                          ELSE re.tag # "Ok"

\* the sum of a written 2 x 3 matrix and another 2 x 3 matrix
C5_Witness ==
  /\ out.op = "sum" /\ out.args = <<"a", "b">> /\ out.ret.tag = "Ok"
  /\ a.rows = usize(2) /\ a.columns = usize(3) /\ nsets = 1
  /\ a.data # b.data /\ out.ret.val.data # a.data

\* the sum over k < n of x[row, k] * y[k, col], row, col and n being numbers
RECURSIVE DotRowColumn(_, _, _, _, _)
DotRowColumn(x, y, row, col, n) ==
  IF n = 0 THEN f64(0)
  ELSE fadd(DotRowColumn(x, y, row, col, n - 1),
            fmul(Elem(x.data, usize_val(x.columns), row, n - 1),
                 Elem(y.data, usize_val(y.columns), n - 1, col)))

\* C6: a.multiply(b) returns Err(IncompatibleDimensions) exactly when
\* a.rows # b.columns or a.columns # b.rows; otherwise it returns Ok with a
\* matrix of a.rows rows and b.columns columns whose entry at every
\* (row, col) is the sum over k in 0..a.columns of a[row, k] * b[k, col].
C6_MultiplyContract ==
  out.op = "multiply" =>
    LET x == Operand(1)
        y == Operand(2)
    IN  IF x.rows # y.columns \/ x.columns # y.rows
          THEN out.ret = Err(IncompatibleDimensions)
          ELSE /\ out.ret.tag = "Ok"
               /\ out.ret.val.rows = x.rows /\ out.ret.val.columns = y.columns
               /\ SizeIs(Len(out.ret.val.data), x.rows, y.columns)
               /\ \A row \in SmallIndices, col \in SmallIndices :
                    (usize(row) \in Rows(x) /\ usize(col) \in Columns(y)) =>
                      Elem(out.ret.val.data, usize_val(y.columns), row, col) =
                        DotRowColumn(x, y, row, col, usize_val(x.columns))

\* C7: determinant returns Err(SquareMatrixRequired) for every matrix with
\* rows # columns, and Ok for every matrix with rows = columns.
C7_SquareRequired ==
  out.op = "determinant" =>
    IF Operand(1).rows # Operand(1).columns
      THEN out.ret = Err(SquareMatrixRequired)
      ELSE out.ret.tag = "Ok"

\* the number of pairs a permutation puts out of order, and its sign
Inversions(p) ==
  Cardinality({ij \in (DOMAIN p) \X (DOMAIN p) : ij[1] < ij[2] /\ p[ij[1]] > p[ij[2]]})
Sign(p) == IF Inversions(p) % 2 = 0 THEN 1 ELSE -1

\* the product of m[i, p(i)] over the first n rows, the entries of m being
\* finite
RECURSIVE Term(_, _, _)
Term(m, p, n) ==
  IF n = 0 THEN 1
  ELSE Term(m, p, n - 1) * Elem(m.data, usize_val(m.columns), n - 1, p[n] - 1).v

\* the sum of the signed products over the permutations that begin with p
\* and go on with a column from c on in the next row
RECURSIVE PermSum(_, _, _)
PermSum(m, p, c) ==
  IF Len(p) = usize_val(m.rows) THEN Sign(p) * Term(m, p, usize_val(m.rows))
  ELSE IF c > usize_val(m.rows) THEN 0
  ELSE (IF \E i \in DOMAIN p : p[i] = c THEN 0 ELSE PermSum(m, Append(p, c), 1))
         + PermSum(m, p, c + 1)

\* the determinant as the sum over all permutations
Leibniz(m) == PermSum(m, <<>>, 1)

C9_NoPanic ==
  /\ out.ret.tag \in {"Ok", "Err"}
  /\ out.op \in {"get", "set", "sum", "multiply", "determinant"} =>
       (out.ret.tag = "Err" =>
          out.ret.err.kind \in {"InvalidIndex", "IncompatibleDimensions",
                                "SquareMatrixRequired"})
  /\ (out.op = "determinant" /\ a.rows = a.columns) =>
       /\ out.ret.tag = "Ok"
       /\ \A column_mask \in Columns(a) :
            a.rows # usize(2) => sub_matrix(a, column_mask).tag = "Ok"

\* C10: sum, multiply, determinant and get leave their operands as they
\* were, whether they succeed or fail: after the call the caller's a and b
\* hold what they held when it began, the call leaving self and other as
\* its body leaves them; the caller holds the matrix a sum or a multiply
\* returned; and a set on an operand leaves that matrix, and the other
\* operand, as they were.
C10_OperandsUnchanged ==
  /\ out.op \in {"sum", "multiply", "determinant", "get"} =>
       /\ a = pre.a /\ b = pre.b
       /\ out.op \in {"sum", "multiply"} /\ out.ret.tag = "Ok" => kept = out.ret.val
  /\ (out.op = "set" /\ pre.kept # None) => kept = pre.kept /\ b = pre.b

\* a successful set on a while the caller holds the sum of a and b
C10_Witness ==
  /\ out.op = "set" /\ out.ret.tag = "Ok" /\ stage = 4
  /\ pre.kept # None /\ sum(pre.a, b).ret = Ok(kept)
  /\ a # pre.a /\ a.rows = usize(2) /\ a.columns = usize(2)
  /\ sum(a, b).ret # Ok(kept)

\* C11: a.cross_product(b) is (ay*bz - az*by, az*bx - ax*bz, ax*by - ay*bx),
\* that is x = det([[ay,az],[by,bz]]), y = -det([[ax,az],[bx,bz]]) and
\* z = det([[ax,ay],[bx,by]]) as determinant computes them; (1,0,0) x (0,1,0)
\* is (0,0,1) and (2,-1,3) x (0,4,-2) is (-10,4,8); and the call never
\* panics, each matrix being constructed from 4 values for 2 x 2.
C11_CrossProduct ==
  out.op = "cross_product" =>
    LET p == Operand(1)
        q == Operand(2)
        mx == matrix_new(2, 2, <<p.y, p.z, q.y, q.z>>)
        my == matrix_new(2, 2, <<p.x, p.z, q.x, q.z>>)
        mz == matrix_new(2, 2, <<p.x, p.y, q.x, q.y>>)
    IN  /\ out.ret.tag = "Ok"
        /\ out.ret.val = vector3(p.y.v * q.z.v - p.z.v * q.y.v,
                                 p.z.v * q.x.v - p.x.v * q.z.v,
                                 p.x.v * q.y.v - p.y.v * q.x.v)
        /\ mx.tag = "Ok" /\ my.tag = "Ok" /\ mz.tag = "Ok"
        /\ matrix_determinant(mx.val) = Ok(out.ret.val.x)
        /\ matrix_determinant(my.val) = Ok(fneg(out.ret.val.y))
        /\ matrix_determinant(mz.val) = Ok(out.ret.val.z)
        /\ (p = vector3(1, 0, 0) /\ q = vector3(0, 1, 0)) => out.ret.val = vector3(0, 0, 1)
        /\ (p = vector3(2, -1, 3) /\ q = vector3(0, 4, -2)) => out.ret.val = vector3(-10, 4, 8)

\* the cross product of the second case of the tests
C11_Witness ==
  /\ out.op = "cross_product" /\ out.args = <<"a", "b">>
  /\ a = vector3(2, -1, 3) /\ b = vector3(0, 4, -2)
  /\ out.ret = Ok(vector3(-10, 4, 8))

\* C12: the dot products of a.cross_product(b) with a and with b are 0.
C12_Orthogonal ==
  /\ (out.op = "cross_product" /\ out.ret.tag = "Ok") =>
       /\ dot_product(out.ret.val, Operand(1)) = f64(0)
       /\ dot_product(out.ret.val, Operand(2)) = f64(0)
  /\ out.op = "dot_product" => out.ret = Ok(f64(0))

\* the dot product of a cross product with no component 0 and an operand
\* with no component 0
C12_Witness ==
  /\ out.op = "dot_product" /\ out.args = <<"kept", "a">>
  /\ kept.x # f64(0) /\ kept.y # f64(0) /\ kept.z # f64(0)
  /\ a.x # f64(0) /\ a.y # f64(0) /\ a.z # f64(0)
  /\ cross_product(a, b) = Ok(kept)

\* every activation but the outermost is on a matrix one row and one column
\* smaller than its caller's
OneSmaller ==
  \A i \in 1..(Len(stack) - 1) :
    /\ usize_succ(stack[i + 1].self.rows) = stack[i].self.rows
    /\ usize_succ(stack[i + 1].self.columns) = stack[i].self.columns
    /\ stack[i + 1].self.rows # usize_max /\ stack[i + 1].self.columns # usize_max

\* the number of recursive calls under way is at most the size of the matrix
DepthBounded == stack # <<>> => ~usize_lt(stack[1].self.rows, usize(Len(stack) - 1))

\* C13 as stated: determinant on any square matrix terminates, each
\* recursive call is on a matrix one row and one column smaller, the depth
\* is bounded by the size, and every recursive call that makes no further
\* call is the 2 x 2 base case.
C13_EndsAtBaseCase ==
  /\ OneSmaller
  /\ DepthBounded
  /\ (out.op = "return" /\ out.frame.calls = 0) => out.frame.self.rows = usize(2)

\* the shape of C13, amended: as stated, except for the matrices of fewer
\* than 2 rows: the one recursive call from a 1 x 1 matrix is on the 0 x 0
\* submatrix, which makes no further call and returns 0 from its empty
\* loop, and a 0 x 0 matrix makes no recursive call.  An activation that
\* returns without having made a recursive call is the 2 x 2 base case
\* otherwise, and the call ends with the outcome of determinant.
C13_Shape ==
  /\ OneSmaller
  /\ DepthBounded
  /\ (out.op = "return" /\ out.frame.calls = 0) =>
       IF a.rows = usize(1)
         THEN /\ out.frame.self = Matrix(usize(0), usize(0), <<>>)
              /\ out.ret = Ok(f64(0))
         ELSE out.frame.self.rows = usize(2)
  /\ (out.op = "determinant" /\ out.ret.tag = "Ok" /\ out.frame.calls = 0) =>
       a.rows \in {usize(0), usize(2)}
  /\ out.op = "determinant" => out.ret = determinant(a).ret

\* the number of steps of a call of determinant on an n x n matrix: one per
\* recursive call, one per return
RECURSIVE Steps(_)
Steps(n) == IF n = 2 \/ n <= 0 THEN 1 ELSE n * (1 + Steps(n - 1)) + 1

\* the steps the activation stack[i] has left, its callee's apart
StepsLeft(i) ==
  LET f == stack[i]
      n == usize_val(f.self.rows)
      done == usize_val(f.column_mask)
      todo == IF i = Len(stack) THEN n - done ELSE n - done - 1
  IN  IF f.self.rows # f.self.columns \/ ~usize_lt(f.self.rows, Two32) THEN 1
      ELSE IF n = 2 \/ n <= 0 THEN 1
      ELSE todo * (1 + Steps(n - 1)) + 1

RECURSIVE StepsLeftUpTo(_)
StepsLeftUpTo(i) == IF i = 0 THEN 0 ELSE StepsLeftUpTo(i - 1) + StepsLeft(i)

\* the steps the call under way has left
Measure == StepsLeftUpTo(Len(stack))

\* C13, amended: determinant on any square matrix terminates, with the
\* shape above: C13_Shape holds throughout, and every step of a call under
\* way ends the call with a panic or takes the measure down by one and
\* never below 0, so the call ends, after Steps(n) steps when it does not
\* panic
C13_Terminates ==
  /\ []C13_Shape
  /\ [][stack # <<>> =>
          IF out'.op = "determinant" /\ out'.ret.tag = "Panic" THEN stack' = <<>>
          ELSE /\ Measure' = Measure - 1 /\ Measure' >= 0
               /\ (Measure' = 0 <=> stack' = <<>>)]_vars

\* the determinant of a 4 x 4 matrix has returned, after the four recursive
\* calls of the outermost activation
C13_Witness ==
  /\ out.op = "determinant" /\ stack = <<>> /\ out.ret.tag = "Ok"
  /\ a.rows = usize(4) /\ out.frame.calls = 4 /\ out.ret.val # f64(0)

\* C14 as stated: the determinant of a square matrix of fewer than 2 rows
\* is Ok(0) whatever the matrix holds.
C14_AlwaysZero ==
  (out.op = "determinant" /\ a.rows = a.columns /\ usize_lt(a.rows, usize(2))) =>
    out.ret = Ok(f64(0))

\* C14, amended: the determinant of a 0 x 0 matrix is Ok(0), its loop being
\* empty; that of a 1 x 1 matrix [v] is v multiplied by the determinant of
\* the 0 x 0 sub_m, which is 0: Ok(0) for every finite v, and Ok(NaN) for v
\* infinite or NaN.
C14_SmallDeterminant ==
  (out.op = "determinant" /\ a.rows = a.columns /\ usize_lt(a.rows, usize(2))) =>
    /\ a.rows = usize(0) =>
         out.ret = Ok(f64(0)) /\ determinant_loop(Ok(Expansion(a, f64(0))), usize(0), a.columns) = Ok(Expansion(a, f64(0)))
    /\ a.rows = usize(1) =>
         /\ sub_matrix(a, usize(0)) = square_zeros(usize(0))
         /\ determinant(Matrix(usize(0), usize(0), <<>>)).ret = Ok(f64(0))
         /\ out.ret = Ok(fmul(a.data[1], f64(0)))
         /\ out.ret = IF IsFinite(a.data[1]) THEN Ok(f64(0)) ELSE Ok(NaN)

\* the determinant of a 1 x 1 matrix that holds a finite value other than 0,
\* written by set
C14_Witness ==
  /\ out.op = "determinant" /\ out.ret = Ok(f64(0))
  /\ a.rows = usize(1) /\ a.columns = usize(1) /\ nsets = 1
  /\ IsFinite(a.data[1]) /\ a.data[1] # f64(0) /\ a.data[1] # base[1]

====
